---- MODULE Spec2Model ----
(***************************************************************************)
(* Model of the two analysis programs of Threads-PrimeNumbers:             *)
(*   analysis/find_opt_threads.py   - the adaptive thread sweep            *)
(*   analysis/benchmark_and_plot.py - the fixed-grid benchmark aggregator  *)
(* Times are exact rationals [num, den]; a zero denominator stands for the *)
(* IEEE values the programs can produce (math.inf, x/0, 0/0).              *)
(***************************************************************************)
EXTENDS Integers, Sequences, FiniteSets, TLC

VARIABLES
    iters, tmin, tmax, patience, min_gain,  \* command-line arguments of the sweep
    workload,       \* per thread count: the results the external process may give
    pc,             \* position of the running program
    t, i,           \* loop variables of sweep_threads
    times, records, best_mean, no_improve,
    std_t,          \* the deviation sweep_threads prints for the level just measured
    stopped_early,  \* the early-stop break was taken
    ncalls,         \* number of workload processes launched so far
    df,             \* the frame sweep_threads returned
    error,          \* the exception that ended the program, if any
    exit_code,      \* exit status of the program, -1 while it runs
    best_t, best_ms,\* the optimum main reports
    yerr,           \* per thread count, the error bar of threads_sweep.png
    charts,         \* chart files written so far
    printed,        \* the messages printed so far that tell the outcome
    csv,            \* rows of out/results.csv read by plot_results
    speedup         \* the speedup series of plot_results

vars == <<iters, tmin, tmax, patience, min_gain, workload, pc, t, i, times,
          records, best_mean, no_improve, stopped_early, ncalls, df, error,
          exit_code, best_t, best_ms, charts, printed, csv, speedup, std_t,
          yerr>>

sweepVars == <<iters, tmin, tmax, patience, min_gain, workload, t, i, times,
               records, best_mean, no_improve, stopped_early, ncalls, df,
               error, best_t, best_ms, std_t, yerr>>

----------------------------------------------------------------------------
(* Bounds of the model *)

MaxThreads == 4
MaxIters == 2
MaxCalls == 4
MaxPatience == 2
MaxMs == 3
MaxRows == 2
MaxLine == 2

(* min_gain is held in hundredths: 2 stands for 0.02 *)
GainDen == 100
MinGainValues == {0, 2, 60}

(* the tolerance 1e-9 of the strict-improvement test, as 1 / EpsDen *)
EpsDen == 1000000000

----------------------------------------------------------------------------
(* Numbers *)

Rat(n, d) == [num |-> n, den |-> d]

\* variant: a finite time in place of math.inf
FiniteStart == Rat(2, 1)

\* math.inf
Inf == Rat(1, 0)

NoMean == Rat(0, 0)

IsFinite(x) == x.den > 0

\* a <= b for finite a, b
RatLeq(a, b) == a.num * b.den <= b.num * a.den

RatLess(a, b) == a.num * b.den < b.num * a.den

RatEq(a, b) == a.num * b.den = b.num * a.den

\* numpy's float division: x/0 is inf, 0/0 is nan, and no exception is raised
FloatDiv(a, b) == Rat(a.num * b.den, a.den * b.num)

RECURSIVE Sum(_)
Sum(s) == IF s = <<>> THEN 0 ELSE Head(s) + Sum(Tail(s))

\* statistics.mean / pandas mean of a non-empty list of integers
Mean(s) == Rat(Sum(s), Len(s))

RECURSIVE SumSq(_)
SumSq(s) == IF s = <<>> THEN 0 ELSE Head(s) * Head(s) + SumSq(Tail(s))

\* Len(s) times the sum of the squared deviations from the mean
SqDev(s) == Len(s) * SumSq(s) - Sum(s) * Sum(s)

\* math.sqrt of a rational, kept exact: the value is named by its radicand
Sqrt(r) == [sqrt_of |-> r]

\* the float 0.0
StdZero == Sqrt(Rat(0, 1))

NaN == Rat(0, 0)

\* statistics.pstdev: the square root of the mean squared deviation
pstdev(s) == Sqrt(Rat(SqDev(s), Len(s) * Len(s)))

\* pandas "std" of a group: ddof = 1, the sum of squared deviations over N - 1,
\* and NaN (0/0) for a group of one
PandasStd(s) == Sqrt(Rat(SqDev(s), Len(s) * (Len(s) - 1)))

\* Series.fillna(0)
FillNa(x) == IF x.sqrt_of = NaN THEN StdZero ELSE x

----------------------------------------------------------------------------
(* run_java: one invocation of the external workload *)

Tok(k, v) == [kind |-> k, val |-> v]

\* "Paralelo (X threads): Y ms", the line Main.java prints
TimeLine(threads, ms) ==
    << Tok("word", 0), Tok("wordnum", threads), Tok("word", 0),
       Tok("num", ms), Tok("ms", 0) >>

\* what a process run with `threads` can give: an exit status and the tokens
\* of the last line of its standard output (<<>>: it printed nothing)
ProcessOutputs(threads, msValues) ==
    { [returncode |-> 0, stdout |-> TimeLine(threads, ms)] : ms \in msValues }
      \cup { [returncode |-> 0, stdout |-> <<Tok("word", 0), Tok("numms", ms)>>]
               : ms \in msValues }
      \cup { [returncode |-> 1, stdout |-> <<>>],
             [returncode |-> 1, stdout |-> TimeLine(threads, 0)],
             [returncode |-> 0, stdout |-> <<>>],
             [returncode |-> 0, stdout |-> <<Tok("word", 0), Tok("ms", 0)>>],
             [returncode |-> 0, stdout |-> <<Tok("word", 0)>>] }

NoError == [type |-> "none", msg |-> "", level |-> 0, trial |-> 0]

\* `level` and `trial` are the thread count and the trial index the report
\* names, 0 when it names none. The command printed at line 85 holds the thread
\* count; nothing printed or raised holds the trial index.
ExecutionFailure(threads) ==
    [type |-> "RuntimeError", msg |-> "Falha na execucao Java",
     level |-> threads, trial |-> 0]

ParseFailure ==
    [type |-> "RuntimeError", msg |-> "Nao consegui extrair ms",
     level |-> 0, trial |-> 0]

EmptyOutputFailure ==
    [type |-> "IndexError", msg |-> "list index out of range",
     level |-> 0, trial |-> 0]

ZeroDivisionFailure ==
    [type |-> "ZeroDivisionError", msg |-> "division by zero",
     level |-> 0, trial |-> 0]

\* tok.isdigit() or tok.endswith("ms")
IsTimeToken(tok) == tok.kind \in {"num", "numms", "ms"}

\* re.search(r"(\d+)\s*ms", line) matches at position k
RegexAt(line, k) ==
    \/ line[k].kind = "numms"
    \/ /\ line[k].kind \in {"num", "wordnum"}
       /\ k < Len(line)
       /\ line[k + 1].kind = "ms"

RegexMatches(line) == { k \in 1..Len(line) : RegexAt(line, k) }

Returned(ms) == [ok |-> TRUE, ms |-> ms, error |-> NoError]

Raised(e) == [ok |-> FALSE, ms |-> 0, error |-> e]

\* variant: a line holding no time is read as 0 ms
ParseMsOrZero(line) ==
    LET cand == SelectSeq(line, IsTimeToken)
    IN  IF cand # <<>> /\ cand[Len(cand)].kind \in {"num", "numms"}
        THEN Returned(cand[Len(cand)].val)
        ELSE IF RegexMatches(line) = {}
             THEN Returned(0)
             ELSE LET k == CHOOSE m \in RegexMatches(line) :
                              \A n \in RegexMatches(line) : m <= n
                  IN  Returned(line[k].val)

\* lines 93-103: the last time token, else the first regex match, else raise
ParseMs(line) ==
    LET cand == SelectSeq(line, IsTimeToken)
    IN  IF cand # <<>> /\ cand[Len(cand)].kind \in {"num", "numms"}
        THEN Returned(cand[Len(cand)].val)
        ELSE IF RegexMatches(line) = {}
             THEN Raised(ParseFailure)
             ELSE LET k == CHOOSE m \in RegexMatches(line) :
                              \A n \in RegexMatches(line) : m <= n
                  IN  Returned(line[k].val)

run_java(out, threads) ==
    IF out.returncode # 0 THEN Raised(ExecutionFailure(threads))
    ELSE IF out.stdout = <<>> THEN Raised(EmptyOutputFailure)
    ELSE ParseMs(out.stdout)

----------------------------------------------------------------------------
(* sweep_threads: the per-level decision *)

\* variant: the tolerance is a whole millisecond
StrictImprovementByOne(mean_t, best) ==
    \/ ~IsFinite(best)
    \/ best.num * mean_t.den - mean_t.num * best.den > best.den * mean_t.den

\* line 127: mean_t + 1e-9 < best_mean
StrictImprovement(mean_t, best) ==
    \/ ~IsFinite(best)
    \/ best.num * mean_t.den - mean_t.num * best.den
          > (best.den * mean_t.den) \div EpsDen

\* lines 134-137: gain = 0.0, or (best_mean - mean_t) / best_mean; gain >= min_gain
GainAtLeast(mean_t, best, mg) ==
    IF ~IsFinite(best) THEN 0 >= mg
    ELSE (best.num * mean_t.den - mean_t.num * best.den) * GainDen
            >= mg * best.num * mean_t.den

\* line 136 divides by best_mean
GainDividesByZero(best) == IsFinite(best) /\ best.num = 0

\* variant: stops one level late
ShouldStopLate(ni, p) == ni > p

\* variant: a patience of 0 switches early stopping off
ShouldStopUnlessZero(ni, p) == p > 0 /\ ni >= p

\* line 143
ShouldStop(ni, p) == ni >= p

----------------------------------------------------------------------------
(* main of find_opt_threads.py: the optimum *)

Levels(recs) == { recs[k].threads : k \in DOMAIN recs }

RECURSIVE MsOf(_, _)
MsOf(recs, l) ==
    IF recs = <<>> THEN <<>>
    ELSE IF Head(recs).threads = l
         THEN <<Head(recs).ms>> \o MsOf(Tail(recs), l)
         ELSE MsOf(Tail(recs), l)

\* df.groupby("threads")["ms"].mean() for one group
GroupMean(recs, l) == Mean(MsOf(recs, l))

RECURSIVE SortedSeq(_)
SortedSeq(S) ==
    IF S = {} THEN <<>>
    ELSE LET m == CHOOSE x \in S : \A y \in S : x <= y
         IN  <<m>> \o SortedSeq(S \ {m})

\* line 211: one row per thread count, in increasing order of thread count
Agg(recs) ==
    LET ls == SortedSeq(Levels(recs))
    IN  [k \in 1..Len(ls) |-> [threads |-> ls[k], ms_mean |-> GroupMean(recs, ls[k])]]

\* plot_thread_sweep, lines 152-159: the error bar of each thread count
AggStd(recs) == [l \in Levels(recs) |-> FillNa(PandasStd(MsOf(recs, l)))]

\* variant: idxmax in place of idxmin
RECURSIVE IdxMaxFrom(_, _, _)
IdxMaxFrom(agg, k, best) ==
    IF k > Len(agg) THEN best
    ELSE IF RatLess(agg[best].ms_mean, agg[k].ms_mean)
         THEN IdxMaxFrom(agg, k + 1, k)
         ELSE IdxMaxFrom(agg, k + 1, best)

IdxMax(agg) == IdxMaxFrom(agg, 2, 1)

\* line 212, idxmin: the first row holding the smallest ms_mean
RECURSIVE IdxMinFrom(_, _, _)
IdxMinFrom(agg, k, best) ==
    IF k > Len(agg) THEN best
    ELSE IF RatLess(agg[k].ms_mean, agg[best].ms_mean)
         THEN IdxMinFrom(agg, k + 1, k)
         ELSE IdxMinFrom(agg, k + 1, best)

IdxMin(agg) == IdxMinFrom(agg, 2, 1)

----------------------------------------------------------------------------
(* find_opt_threads.py *)

SweepArgs ==
    /\ iters \in 1..MaxIters
    /\ tmin \in 1..MaxThreads
    /\ tmax \in 1..MaxThreads
    /\ (tmax - tmin + 1) * iters <= MaxCalls
    /\ patience \in 0..MaxPatience
    /\ min_gain \in MinGainValues

SweepLocals ==
    /\ t = 0
    /\ i = 0
    /\ times = <<>>
    /\ records = <<>>
    /\ best_mean = Inf
    /\ no_improve = 0
    /\ std_t = Sqrt(NaN)
    /\ yerr = <<>>
    /\ stopped_early = FALSE
    /\ ncalls = 0
    /\ df = <<>>
    /\ error = NoError
    /\ exit_code = -1
    /\ best_t = 0
    /\ best_ms = NoMean
    /\ charts = {}
    /\ printed = {}

BenchIdle ==
    /\ csv = <<>>
    /\ speedup = {}

Init ==
    /\ SweepArgs
    /\ workload = [l \in 1..MaxThreads |-> ProcessOutputs(l, 0..MaxMs)]
    /\ pc = "main"
    /\ SweepLocals
    /\ BenchIdle

\* sys.exit(code) after print(msg)
Exit(code, msg) ==
    /\ pc' = "exit"
    /\ exit_code' = code
    /\ printed' = printed \cup {msg}

\* an exception nothing catches: the interpreter prints it and exits with 1
Uncaught(e) ==
    /\ pc' = "raised"
    /\ error' = e
    /\ exit_code' = 1

\* main, lines 184-204, and the entry of sweep_threads, lines 111-115
MainStart ==
    /\ pc = "main"
    /\ \E data_exists, compiled \in BOOLEAN :
          IF ~data_exists
          THEN /\ Exit(2, "ERRO: Arquivo de entrada nao encontrado")
               /\ UNCHANGED <<t, i>>
          ELSE IF ~compiled
          THEN /\ Exit(2, "Falha na compilacao")
               /\ UNCHANGED <<t, i>>
          ELSE /\ exit_code' = exit_code
               /\ printed' = printed
               /\ IF tmin <= tmax
                  THEN /\ pc' = "run_java"
                       /\ t' = tmin
                       /\ i' = 1
                  ELSE /\ pc' = "returned"
                       /\ UNCHANGED <<t, i>>
    /\ UNCHANGED <<iters, tmin, tmax, patience, min_gain, workload, times,
                   records, best_mean, no_improve, stopped_early, ncalls, df,
                   error, best_t, best_ms, charts, csv, speedup, std_t, yerr>>

\* variant: run_idx counted from 0
NewRecordFromZero(threads, run_idx, ms) ==
    [threads |-> threads, run_idx |-> run_idx - 1, ms |-> ms]

\* line 121
NewRecord(threads, run_idx, ms) ==
    [threads |-> threads, run_idx |-> run_idx, ms |-> ms]

\* lines 118-122: one trial whose run_java call returns
RunJavaReturns ==
    /\ pc = "run_java"
    /\ \E out \in workload[t] :
          LET r == run_java(out, t)
          IN  /\ r.ok
              /\ times' = Append(times, r.ms)
              /\ records' = Append(records, NewRecord(t, i, r.ms))
    /\ ncalls' = ncalls + 1
    /\ IF i < iters
       THEN /\ i' = i + 1
            /\ pc' = pc
       ELSE /\ i' = i
            /\ pc' = "level_end"
    /\ UNCHANGED <<iters, tmin, tmax, patience, min_gain, workload, t,
                   best_mean, no_improve, stopped_early, df, error, exit_code,
                   best_t, best_ms, charts, printed, csv, speedup, std_t, yerr>>

\* variant: the failure is swallowed and the trial is run again
RunJavaRetries ==
    /\ pc = "run_java"
    /\ \E out \in workload[t] : ~run_java(out, t).ok
    /\ ncalls < MaxCalls + 2
    /\ ncalls' = ncalls + 1
    /\ UNCHANGED <<iters, tmin, tmax, patience, min_gain, workload, pc, t, i,
                   times, records, best_mean, no_improve, stopped_early, df,
                   error, exit_code, best_t, best_ms, charts, printed, csv,
                   speedup, std_t, yerr>>

\* lines 84-88, 90, 102: run_java raises; nothing up to main catches it
RunJavaRaises ==
    /\ pc = "run_java"
    /\ \E out \in workload[t] :
          LET r == run_java(out, t)
          IN  /\ ~r.ok
              /\ Uncaught(r.error)
    /\ ncalls' = ncalls + 1
    /\ UNCHANGED <<iters, tmin, tmax, patience, min_gain, workload, t, i,
                   times, records, best_mean, no_improve, stopped_early, df,
                   best_t, best_ms, charts, printed, csv, speedup, std_t, yerr>>

\* the for loop goes on to the next thread count, or ends and line 147 returns
Continue ==
    /\ stopped_early' = stopped_early
    /\ printed' = printed
    /\ UNCHANGED <<error, exit_code>>
    /\ IF t < tmax
       THEN /\ t' = t + 1
            /\ i' = 1
            /\ times' = <<>>
            /\ pc' = "run_java"
            /\ df' = df
       ELSE /\ pc' = "returned"
            /\ df' = records
            /\ UNCHANGED <<t, i, times>>

\* line 145: break, then line 147 returns
Break ==
    /\ stopped_early' = TRUE
    /\ printed' = printed \cup {"Parada antecipada"}
    /\ UNCHANGED <<error, exit_code>>
    /\ pc' = "returned"
    /\ df' = records
    /\ UNCHANGED <<t, i, times>>

\* lines 123-145: the decision taken once the trials of a level are done
EndLevel ==
    /\ pc = "level_end"
    /\ LET mean_t == Mean(times)
       IN  IF StrictImprovement(mean_t, best_mean)
           THEN /\ best_mean' = mean_t
                /\ no_improve' = 0
                /\ Continue
           ELSE IF GainDividesByZero(best_mean)
           THEN /\ Uncaught(ZeroDivisionFailure)
                /\ UNCHANGED <<best_mean, no_improve, stopped_early, df, t, i,
                               times, printed>>
           ELSE IF GainAtLeast(mean_t, best_mean, min_gain)
           THEN /\ best_mean' = best_mean
                /\ no_improve' = 0
                /\ Continue
           ELSE /\ best_mean' = best_mean
                /\ no_improve' = no_improve + 1
                /\ IF ShouldStop(no_improve + 1, patience)
                   THEN Break
                   ELSE Continue
    /\ std_t' = (IF Len(times) > 1 THEN pstdev(times) ELSE StdZero)
    /\ UNCHANGED <<iters, tmin, tmax, patience, min_gain, workload, records,
                   ncalls, best_t, best_ms, charts, csv, speedup, yerr>>

\* variant: an empty frame is not told apart, the run ends as a success
MainReportSilentEmpty ==
    /\ pc = "returned"
    /\ IF df = <<>>
       THEN /\ Exit(0, "RESULTADO")
            /\ UNCHANGED <<best_t, best_ms, charts, yerr>>
       ELSE LET agg == Agg(df)
                best_row == agg[IdxMin(agg)]
            IN  /\ best_t' = best_row.threads
                /\ best_ms' = best_row.ms_mean
                /\ yerr' = AggStd(df)
                /\ charts' = charts \cup {"threads_sweep.png", "threads_runs.png"}
                /\ Exit(0, "RESULTADO")
    /\ UNCHANGED <<iters, tmin, tmax, patience, min_gain, workload, t, i,
                   times, records, best_mean, no_improve, stopped_early,
                   ncalls, df, error, csv, speedup, std_t>>

\* main, lines 206-218: the empty check, the optimum, the two charts
MainReport ==
    /\ pc = "returned"
    /\ IF df = <<>>
       THEN /\ Exit(2, "Nenhum dado coletado")
            /\ UNCHANGED <<best_t, best_ms, charts, yerr>>
       ELSE LET agg == Agg(df)
                best_row == agg[IdxMin(agg)]
            IN  /\ best_t' = best_row.threads
                /\ best_ms' = best_row.ms_mean
                /\ yerr' = AggStd(df)
                /\ charts' = charts \cup {"threads_sweep.png", "threads_runs.png"}
                \* main returns: the interpreter exits with 0
                /\ Exit(0, "RESULTADO")
    /\ UNCHANGED <<iters, tmin, tmax, patience, min_gain, workload, t, i,
                   times, records, best_mean, no_improve, stopped_early,
                   ncalls, df, error, csv, speedup, std_t>>

Next ==
    \/ MainStart
    \/ RunJavaReturns
    \/ RunJavaRaises
    \/ EndLevel
    \/ MainReport

Spec == Init /\ [][Next]_vars

----------------------------------------------------------------------------
(* The example sweep of the design document: tmin=1, tmax=5, iters=3,      *)
(* patience=2, min_gain=0.02, level means 1000, 600, 590, 592, 591.        *)
(* Levels 3 and 4 also give samples one off their mean, so that a level    *)
(* reaches its mean by several sample sets.                                *)

ExampleMean(l) ==
    CASE l = 1 -> 1000
      [] l = 2 -> 600
      [] l = 3 -> 590
      [] l = 4 -> 592
      [] l = 5 -> 591

ExampleMs(l) ==
    IF l \in {1, 2, 5} THEN {ExampleMean(l)}
    ELSE {ExampleMean(l) - 1, ExampleMean(l), ExampleMean(l) + 1}

InitExample ==
    /\ iters = 3
    /\ tmin = 1
    /\ tmax = 5
    /\ patience = 2
    /\ min_gain = 2
    /\ workload = [l \in 1..5 |-> ProcessOutputs(l, ExampleMs(l))]
    /\ pc = "main"
    /\ SweepLocals
    /\ BenchIdle

SpecExample == InitExample /\ [][Next]_vars

----------------------------------------------------------------------------
(* benchmark_and_plot.py: plot_results over the rows of out/results.csv *)

BenchVersions == {"seq", "par"}

BenchThreads == {1, 5}

CsvRows == [version : BenchVersions, threads : BenchThreads, ms : 0..MaxMs]

RECURSIVE SeqsUpTo(_, _)
SeqsUpTo(S, n) ==
    IF n = 0 THEN {<<>>}
    ELSE LET shorter == SeqsUpTo(S, n - 1)
         IN  shorter \cup { Append(s, x) : s \in shorter, x \in S }

Config(row) == [version |-> row.version, threads |-> row.threads]

Configs(rows) == { Config(rows[k]) : k \in DOMAIN rows }

RECURSIVE MsOfConfig(_, _)
MsOfConfig(rows, c) ==
    IF rows = <<>> THEN <<>>
    ELSE IF Config(Head(rows)) = c
         THEN <<Head(rows).ms>> \o MsOfConfig(Tail(rows), c)
         ELSE MsOfConfig(Tail(rows), c)

\* line 183: df.groupby(["version","threads"])["ms"].mean()
BenchAgg(rows) ==
    { [config |-> c, ms |-> Mean(MsOfConfig(rows, c))] : c \in Configs(rows) }

\* line 184
Baseline == [version |-> "seq", threads |-> 1]

\* variant: any sequential row is taken as the baseline
SeqRowAnyThreads(agg) == { r \in agg : r.config.version = "seq" }

SeqRow(agg) == { r \in agg : r.config = Baseline }

\* line 191: speedup = seq_mean / agg["ms"]
SpeedupOf(seq_mean, ms_mean) == FloatDiv(seq_mean, ms_mean)

InitBench ==
    /\ iters = 1
    /\ tmin = 1
    /\ tmax = 1
    /\ patience = 0
    /\ min_gain = 0
    /\ workload = [l \in 1..MaxThreads |-> {}]
    /\ pc = "plot_results"
    /\ SweepLocals
    /\ csv \in SeqsUpTo(CsvRows, MaxRows)
    /\ speedup = {}

\* plot_results, lines 160-204. A results.csv holding no row is read as a frame
\* whose groupby is empty.
PlotResults ==
    /\ pc = "plot_results"
    /\ LET agg == BenchAgg(csv)
           seq_row == SeqRow(agg)
       IN  IF seq_row = {}
           THEN /\ charts' = charts \cup {"performance_ms.png"}
                /\ speedup' = speedup
                /\ Exit(2, "Nao encontrei baseline sequencial")
           ELSE LET seq_mean == (CHOOSE r \in seq_row : TRUE).ms
                IN  /\ speedup' = { [config |-> r.config,
                                     value |-> SpeedupOf(seq_mean, r.ms)]
                                    : r \in agg }
                    /\ charts' = charts \cup {"performance_ms.png",
                                              "performance_speedup.png"}
                    /\ Exit(0, "Graficos gerados")
    /\ UNCHANGED <<csv, sweepVars>>

NextBench == PlotResults

SpecBench == InitBench /\ [][NextBench]_vars

----------------------------------------------------------------------------
(* benchmark_and_plot.py: main, that is run_benchmark and then plot_results. *)
(* pc names the loop of run_benchmark being run, i its iteration, ncalls the *)
(* workload processes launched by bench_once.                               *)

\* line 37
ITERATIONS == 10

\* lines 142-158: the three loops, in the order the code runs them
BenchLoops == <<"loop_seq", "loop_par5", "loop_par10">>

LoopIndex(p) == CHOOSE k \in DOMAIN BenchLoops : BenchLoops[k] = p

InitBenchmark ==
    /\ iters = 1
    /\ tmin = 1
    /\ tmax = 1
    /\ patience = 0
    /\ min_gain = 0
    /\ workload = [l \in 1..MaxThreads |-> {}]
    /\ pc = "run_benchmark"
    /\ SweepLocals
    /\ BenchIdle

\* variant: the dataset is looked for only after a first workload run
RunBenchmarkChecksLate ==
    /\ pc = "run_benchmark"
    /\ \E data_exists, compiled \in BOOLEAN :
          IF ~compiled
          THEN /\ Exit(2, "Falha na compilacao")
               /\ UNCHANGED <<i, csv, ncalls>>
          ELSE IF ~data_exists
          THEN /\ Exit(2, "ERRO: Arquivo de entrada nao encontrado")
               /\ ncalls' = ncalls + 1
               /\ UNCHANGED <<i, csv>>
          ELSE /\ exit_code' = exit_code
               /\ printed' = printed
               /\ csv' = <<>>
               /\ pc' = BenchLoops[1]
               /\ i' = 1
               /\ ncalls' = ncalls
    /\ UNCHANGED <<iters, tmin, tmax, patience, min_gain, workload, t, times,
                   records, best_mean, no_improve, stopped_early, df,
                   error, best_t, best_ms, charts, speedup, std_t, yerr>>

\* run_benchmark, lines 134-140: ensure_input, compile_project, clean_csv
RunBenchmarkStart ==
    /\ pc = "run_benchmark"
    /\ \E data_exists, compiled \in BOOLEAN :
          IF ~data_exists
          THEN /\ Exit(2, "ERRO: Arquivo de entrada nao encontrado")
               /\ UNCHANGED <<i, csv>>
          ELSE IF ~compiled
          THEN /\ Exit(2, "Falha na compilacao")
               /\ UNCHANGED <<i, csv>>
          ELSE /\ exit_code' = exit_code
               /\ printed' = printed
               /\ csv' = <<>>
               /\ pc' = BenchLoops[1]
               /\ i' = 1
    /\ UNCHANGED <<iters, tmin, tmax, patience, min_gain, workload, t, times,
                   records, best_mean, no_improve, stopped_early, ncalls, df,
                   error, best_t, best_ms, charts, speedup, std_t, yerr>>

\* One iteration of a loop of run_benchmark, lines 143-158, with its bench_once
\* call, lines 113-131. The rows of results.csv are written by the workload
\* processes; the frame plot_results reads is whatever they left there, chosen
\* when the last loop ends.
BenchOnce ==
    /\ pc \in { BenchLoops[k] : k \in DOMAIN BenchLoops }
    /\ ncalls' = ncalls + 1
    /\ \E rc \in {0, 1} :
          IF rc # 0
          THEN /\ Exit(2, "ERRO ao executar")
               /\ UNCHANGED <<i, csv>>
          ELSE /\ exit_code' = exit_code
               /\ printed' = printed
               /\ IF i < ITERATIONS
                  THEN /\ i' = i + 1
                       /\ pc' = pc
                       /\ csv' = csv
                  ELSE IF LoopIndex(pc) < Len(BenchLoops)
                  THEN /\ i' = 1
                       /\ pc' = BenchLoops[LoopIndex(pc) + 1]
                       /\ csv' = csv
                  ELSE /\ i' = i
                       /\ pc' = "plot_results"
                       /\ csv' \in SeqsUpTo(CsvRows, MaxRows)
    /\ UNCHANGED <<iters, tmin, tmax, patience, min_gain, workload, t, times,
                   records, best_mean, no_improve, stopped_early, df, error,
                   best_t, best_ms, charts, speedup, std_t, yerr>>

NextBenchmark ==
    \/ RunBenchmarkStart
    \/ BenchOnce
    \/ PlotResults

SpecBenchmark == InitBenchmark /\ [][NextBenchmark]_vars

----------------------------------------------------------------------------
(* The two programs side by side: a run is a run of find_opt_threads.py or a *)
(* run of benchmark_and_plot.py.                                             *)

InitPrograms == Init \/ InitBenchmark

NextPrograms == Next \/ NextBenchmark

SpecPrograms == InitPrograms /\ [][NextPrograms]_vars

----------------------------------------------------------------------------
(* run_java over every last line of up to MaxLine tokens: a sweep of one    *)
(* level and one trial whose workload process has a single possible result. *)

Tokens ==
    {Tok("word", 0), Tok("ms", 0)}
      \cup { Tok(k, v) : k \in {"wordnum", "num", "numms"}, v \in 0..MaxMs }

AllOutputs == [returncode : {0, 1}, stdout : SeqsUpTo(Tokens, MaxLine)]

InitRunJava ==
    /\ iters = 1
    /\ tmin \in 1..MaxThreads
    /\ tmax = tmin
    /\ patience \in {0, MaxPatience}
    /\ min_gain = 2
    /\ \E out \in AllOutputs : workload = [l \in 1..MaxThreads |-> {out}]
    /\ pc = "main"
    /\ SweepLocals
    /\ BenchIdle

SpecRunJava == InitRunJava /\ [][Next]_vars

----------------------------------------------------------------------------
(* Vocabulary of the properties *)

\* run_java raised: the adapter failed
AdapterFailed == pc = "raised" /\ error.type \in {"RuntimeError", "IndexError"}

\* sweep_threads returned its frame to main
SweepReturned ==
    \/ pc = "returned"
    \/ pc = "exit" /\ printed \cap {"RESULTADO", "Nenhum dado coletado"} # {}

\* sweep_threads is over and no adapter call failed
SweepEnded == SweepReturned \/ (pc = "raised" /\ ~AdapterFailed)

STOPPED_EARLY == SweepReturned /\ stopped_early

EXHAUSTED == SweepReturned /\ ~stopped_early /\ tmin <= tmax

MaxLevel(recs) == CHOOSE l \in Levels(recs) : \A m \in Levels(recs) : m <= l

\* every evaluated level after the first has a mean strictly below the mean of
\* the level before it
StrictlyDecreasing(recs) ==
    \A l \in Levels(recs) :
        (l - 1) \in Levels(recs) =>
            RatLess(GroupMean(recs, l), GroupMean(recs, l - 1))

\* levels tmin, tmin+1, ... in increasing order, each with run_idx 1..iters
RecordShape(recs) ==
    /\ Len(recs) % iters = 0
    /\ \A k \in 1..Len(recs) :
          /\ recs[k].threads = tmin + ((k - 1) \div iters)
          /\ recs[k].run_idx = ((k - 1) % iters) + 1
          /\ recs[k].threads <= tmax

----------------------------------------------------------------------------
(* C1: with patience >= 1, as soon as no_improve reaches patience the sweep
   has stopped: the break was taken, the frame is returned, its highest thread
   count is the level at which the counter reached patience, and from then on
   no workload process is launched and no record is added. *)
C1_StopsWhenPatienceReached ==
    /\ [](patience >= 1 /\ no_improve >= patience =>
            /\ STOPPED_EARLY
            /\ no_improve = patience
            /\ df = records
            /\ MaxLevel(df) = t
            /\ ncalls = Len(records))
    /\ [][stopped_early => ncalls' = ncalls /\ records' = records /\ df' = df]_vars

C1_Witness ==
    /\ pc = "exit"
    /\ exit_code = 0
    /\ stopped_early
    /\ patience = 2
    /\ no_improve = 2
    /\ t < tmax

(* C2: a sweep over tmin <= tmax that ends without an adapter failure and whose
   level means are strictly decreasing from each level to the next did not
   stop early and did not raise: it is EXHAUSTED and its frame holds every
   level from tmin to tmax. *)
C2_DecreasingMeansExhaust ==
    (SweepEnded /\ tmin <= tmax /\ StrictlyDecreasing(records)) =>
        /\ EXHAUSTED
        /\ df = records
        /\ Levels(df) = tmin..tmax

C2_Witness ==
    /\ pc = "exit"
    /\ EXHAUSTED
    /\ StrictlyDecreasing(records)
    /\ Cardinality(Levels(df)) = 4
    /\ patience = 0

\* levels 1..n of the example are complete and have the example's means
ExampleMeansUpTo(n) ==
    \A l \in 1..n :
        /\ Len(MsOf(records, l)) = iters
        /\ Sum(MsOf(records, l)) = iters * ExampleMean(l)

(* C3: in the example sweep with level means 1000, 600, 590, 592, 591, level 3
   leaves no_improve at 1, level 4 brings it to 2 and stops the sweep, level 5
   is never run, and the optimum reported is level 3 with mean 590. *)
C3_ExampleTrace ==
    /\ (ExampleMeansUpTo(3) /\ t = 4 /\ times = <<>>) => no_improve = 1
    /\ (ExampleMeansUpTo(4) /\ (t > 4 \/ pc # "level_end")) =>
           /\ no_improve = 2
           /\ STOPPED_EARLY
           /\ MaxLevel(records) = 4
    /\ (ExampleMeansUpTo(4) /\ pc = "exit") =>
           /\ best_t = 3
           /\ RatEq(best_ms, Rat(590, 1))

(* C4: a level after the first counts towards early stopping exactly when its
   relative gain over the best mean, (best_mean - mean_t) / best_mean, is below
   min_gain: such a level adds one to no_improve, any other level resets it. *)
C4_CounterFollowsMinGain ==
    [][(pc = "level_end" /\ IsFinite(best_mean) /\ best_mean.num > 0) =>
          IF GainAtLeast(Mean(times), best_mean, min_gain)
          THEN no_improve' = 0
          ELSE no_improve' = no_improve + 1]_vars

(* C5: a failed run_java call ends the sweep at once: every call that adds no
   record leaves the program raised; a raised program has launched exactly one
   call more than it has records (the failed one, at trial i of level t), has
   returned no frame and reported no optimum; and it launches nothing more. *)
C5_FailureAbortsSweep ==
    /\ [](AdapterFailed =>
            /\ ncalls = Len(records) + 1
            /\ Len(records) = (t - tmin) * iters + (i - 1)
            /\ df = <<>>
            /\ best_t = 0
            /\ charts = {}
            /\ "RESULTADO" \notin printed
            /\ exit_code = 1)
    /\ [][(ncalls' # ncalls /\ records' = records) => AdapterFailed']_vars
    /\ [][pc = "raised" => ncalls' = ncalls /\ records' = records]_vars

C5_Witness ==
    /\ AdapterFailed
    /\ tmin = 1
    /\ t = 2
    /\ i = 2
    /\ error = ExecutionFailure(2)

(* C6: the failure that aborts a sweep names the thread count and the 1-based
   trial index at which it occurred. *)
C6_FailureNamesLevelAndTrial ==
    AdapterFailed => error.level = t /\ error.trial = i

(* C7: the frame a sweep returns holds the levels tmin, tmin+1, ..., k with
   k <= tmax in increasing order, each with exactly iters records of run_idx
   1..iters in that order, one per workload process launched. *)
C7_RecordShape ==
    SweepReturned =>
        /\ df = records
        /\ RecordShape(df)
        /\ ncalls = Len(df)

C7_Witness ==
    /\ pc = "returned"
    /\ iters = 2
    /\ tmin = 2
    /\ Len(df) = 4

(* C8: the optimum reported for a non-empty frame is an evaluated level whose
   mean is at most the mean of every evaluated level, and the mean reported is
   the mean of that level. *)
C8_OptimumIsGlobalMinimum ==
    (pc = "exit" /\ "RESULTADO" \in printed) =>
        /\ best_t \in Levels(df)
        /\ \A l \in Levels(df) :
              RatLeq(GroupMean(df, best_t), GroupMean(df, l))
        /\ RatEq(best_ms, GroupMean(df, best_t))

C8_Witness ==
    /\ pc = "exit"
    /\ "RESULTADO" \in printed
    /\ Cardinality(Levels(df)) = 3
    /\ best_t = tmin + 1

(* C9: when results.csv holds the baseline (seq, 1), the speedup of the
   baseline is exactly 1.0 and the speedup of every configuration is
   baseline_mean / configuration_mean. *)
C9_BaselineSpeedupIsOne ==
    (pc = "exit" /\ Baseline \in Configs(csv)) =>
        /\ exit_code = 0
        /\ { s.config : s \in speedup } = Configs(csv)
        /\ \A s \in speedup :
              LET b == Mean(MsOfConfig(csv, Baseline))
                  c == Mean(MsOfConfig(csv, s.config))
              IN  /\ IsFinite(s.value)
                  /\ s.value.num * b.den * c.num = s.value.den * b.num * c.den
                  /\ s.config = Baseline => s.value.num = s.value.den

(* C10: when results.csv holds no baseline (seq, 1), plot_results exits with
   status 2 and produces no speedup value and no speedup chart. *)
C10_NoBaselineFails ==
    (pc = "exit" /\ Baseline \notin Configs(csv)) =>
        /\ exit_code = 2
        /\ speedup = {}
        /\ "performance_speedup.png" \notin charts

C10_Witness ==
    /\ pc = "exit"
    /\ Baseline \notin Configs(csv)
    /\ [version |-> "seq", threads |-> 5] \in Configs(csv)
    /\ [version |-> "par", threads |-> 1] \in Configs(csv)

\* a fatal failure of the taxonomy ended the run: run_java raised, or the
\* program printed an error and exited with status 2
FatalFailure == AdapterFailed \/ (pc = "exit" /\ exit_code = 2)

ReportLines == {"RESULTADO", "Graficos gerados"}

(* C11: when a run of either program ends in a fatal failure (a failed or
   unparsable workload run, a missing dataset or failed build, no baseline, an
   empty sweep), no result line has been printed and no chart file has been
   written by that run. *)
C11_NoReportOnFailure ==
    FatalFailure => (charts = {} /\ printed \cap ReportLines = {})

\* the dataset was missing or the build failed
PreconditionFailed ==
    printed \cap {"ERRO: Arquivo de entrada nao encontrado",
                  "Falha na compilacao"} # {}

(* C12: in both programs the dataset and the build are checked before any
   workload process is launched: while the checks are still to be made no
   process has been launched, a run whose check failed has exited with status 2
   without having launched one, and it launches none afterwards. *)
C12_ChecksBeforeMeasurement ==
    /\ [](pc \in {"main", "run_benchmark"} => ncalls = 0)
    /\ [](PreconditionFailed =>
            /\ pc = "exit"
            /\ exit_code = 2
            /\ ncalls = 0
            /\ records = <<>>)
    /\ [][PreconditionFailed => ncalls' = ncalls]_vars

C12_Witness ==
    /\ PreconditionFailed
    /\ "Falha na compilacao" \in printed
    /\ pc = "exit"
    /\ ncalls = 0

(* C13: a sweep over an empty range (tmin > tmax) launches no workload process
   and collects no record, and a run that got past its checks and ended with
   no record printed "Nenhum dado coletado" and exited with status 2, without
   printing a result, naming an optimum or writing a chart. *)
C13_EmptySweepFails ==
    /\ tmin > tmax => (ncalls = 0 /\ records = <<>>)
    /\ (pc = "exit" /\ ~PreconditionFailed /\ records = <<>>) =>
           /\ tmin > tmax
           /\ exit_code = 2
           /\ "Nenhum dado coletado" \in printed
           /\ "RESULTADO" \notin printed
           /\ best_t = 0
           /\ best_ms = NoMean
           /\ charts = {}

C13_Witness ==
    /\ pc = "exit"
    /\ tmin = 3
    /\ tmax = 2
    /\ df = <<>>
    /\ "Nenhum dado coletado" \in printed

\* the population standard deviation: the root of the sum of squared deviations
\* divided by N, which is 0 for a single sample
PopulationStd(s) == Sqrt(Rat(SqDev(s), Len(s) * Len(s)))

\* two finite deviations are equal
StdEq(a, b) ==
    /\ IsFinite(a.sqrt_of)
    /\ IsFinite(b.sqrt_of)
    /\ RatEq(a.sqrt_of, b.sqrt_of)

(* C14: every standard deviation the sweep program reports for a level is the
   population standard deviation (divisor N) of the samples of that level, and
   0 for a single sample: the value sweep_threads prints when the level ends,
   and the error bar plot_thread_sweep draws for the level. *)
C14_ReportedStdIsPopulation ==
    /\ [][pc = "level_end" => StdEq(std_t', PopulationStd(times))]_vars
    /\ []((pc = "exit" /\ "threads_sweep.png" \in charts) =>
            /\ DOMAIN yerr = Levels(df)
            /\ \A l \in Levels(df) :
                  StdEq(yerr[l], PopulationStd(MsOf(df, l))))

\* the result of the one workload process of SpecRunJava
TheOutput == CHOOSE out \in workload[tmin] : TRUE

\* the values a line gives as a time: a number standing alone, a number with
\* "ms" attached, or a number followed by "ms"
TimeValues(line) ==
    { line[k].val : k \in { n \in DOMAIN line :
                               line[n].kind \in {"num", "numms"} \/ RegexAt(line, n) } }

\* the run_java call of the sweep has been made
CallMade == ncalls = 1

(* C15: a run_java call gives a value only when the process exited with
   status 0 and the value is a time read from the last line of its output; a
   process that exited with a non-zero status gives the execution failure
   whatever it printed; a last line holding no time, or no output at all,
   gives a failure and no record, never a default value. *)
C15_RunJavaValueOrFailure ==
    CallMade =>
        /\ records # <<>> \/ AdapterFailed
        /\ records # <<>> =>
              /\ ~AdapterFailed
              /\ TheOutput.returncode = 0
              /\ records[1].ms \in TimeValues(TheOutput.stdout)
        /\ TheOutput.returncode # 0 =>
              /\ records = <<>>
              /\ error = ExecutionFailure(t)
        /\ TimeValues(TheOutput.stdout) = {} =>
              /\ records = <<>>
              /\ AdapterFailed

C15_Witness ==
    /\ CallMade
    /\ AdapterFailed
    /\ TheOutput.returncode = 0
    /\ Len(TheOutput.stdout) = 2
    /\ error = ParseFailure

(* C16: with min_gain > 0, every level whose mean is not a strict improvement
   over best_mean adds exactly one to no_improve and leaves best_mean as it
   is: the branch that resets the counter on a sufficient gain is never
   taken. *)
C16_GainBranchDead ==
    [][(pc = "level_end" /\ min_gain > 0
          /\ ~StrictImprovement(Mean(times), best_mean)) =>
          /\ no_improve' = no_improve + 1
          /\ best_mean' = best_mean]_vars

\* the program is over
Terminated == pc \in {"exit", "raised"}

(* C17: a sweep over tmin <= tmax launches at most (tmax - tmin + 1) * iters
   workload processes and always goes on to an end; when it is over and no
   run_java call has failed, it ended in exactly one of STOPPED_EARLY (the
   break was taken with the counter at patience or above) and EXHAUSTED
   (level tmax was evaluated and the break not taken). *)
C17_EndsStoppedOrExhausted ==
    /\ tmin <= tmax => ncalls <= (tmax - tmin + 1) * iters
    /\ Terminated \/ ENABLED Next
    /\ (tmin <= tmax /\ Terminated /\ ~AdapterFailed /\ ~PreconditionFailed) =>
           /\ STOPPED_EARLY \/ EXHAUSTED
           /\ ~(STOPPED_EARLY /\ EXHAUSTED)
           /\ STOPPED_EARLY => no_improve >= patience
           /\ EXHAUSTED => MaxLevel(df) = tmax

\* the levels whose decision (lines 127-145) has been taken
ProcessedLevels ==
    { l \in Levels(records) : l < t \/ pc \in {"returned", "exit"} }

\* m is the smallest mean among the levels of ls
IsMinMean(m, ls) ==
    /\ \E l \in ls : RatEq(m, GroupMean(records, l))
    /\ \A l \in ls : RatLeq(m, GroupMean(records, l))

(* C18: best_mean is infinity until a level has been processed and from then
   on the smallest mean among the levels processed so far; a step changes it
   only to the mean of the level just measured and only when that mean is a
   strict improvement, so it never increases; and the mean main reports for
   the optimum is the final best_mean. *)
C18_BestMeanIsRunningMinimum ==
    /\ [](IF ProcessedLevels = {}
          THEN best_mean = Inf
          ELSE IsFinite(best_mean) /\ IsMinMean(best_mean, ProcessedLevels))
    /\ [][best_mean' # best_mean =>
            /\ pc = "level_end"
            /\ best_mean' = Mean(times)
            /\ StrictImprovement(Mean(times), best_mean)
            /\ IsFinite(best_mean) => RatLess(best_mean', best_mean)]_vars
    /\ []((pc = "exit" /\ "RESULTADO" \in printed) => RatEq(best_ms, best_mean))

C18_Witness ==
    /\ pc = "exit"
    /\ "RESULTADO" \in printed
    /\ Cardinality(Levels(df)) = 3
    /\ best_t = tmin + 1
    /\ stopped_early
    /\ RatEq(best_ms, best_mean)

(* C19: whatever non-negative times the workload runs return, 0 ms included,
   the relative gain (best_mean - mean_t) / best_mean is computed without an
   arithmetic error: sweep_threads is ended by an exception only when a
   run_java call has failed, never by a division by zero. *)
C19_GainNeverRaises ==
    /\ error.type # "ZeroDivisionError"
    /\ pc = "raised" => AdapterFailed

\* the smallest mean among the levels of recs below l, infinity when there is none
BestBefore(recs, l) ==
    LET before == { k \in Levels(recs) : k < l }
    IN  IF before = {} THEN Inf
        ELSE GroupMean(recs, CHOOSE k \in before :
                 \A n \in before : RatLeq(GroupMean(recs, k), GroupMean(recs, n)))

\* level l passes the improvement/gain test against the levels before it
LevelPasses(recs, l) ==
    LET mean_l == GroupMean(recs, l)
        best == BestBefore(recs, l)
    IN  \/ StrictImprovement(mean_l, best)
        \/ ~GainDividesByZero(best) /\ GainAtLeast(mean_l, best, min_gain)

(* C20: with patience 0, as with patience 1, a sweep that returns has
   evaluated the levels from tmin up to the first level that fails the
   improvement/gain test, or up to tmax when none fails: every level but the
   last passed the test, the break was taken exactly when the last one failed,
   and it was taken at once, with no_improve = 1, which is above a patience
   of 0. *)
C20_PatienceZeroStopsAtFirstFailure ==
    /\ [](patience <= 1 =>
            /\ no_improve <= 1
            /\ (SweepReturned /\ tmin <= tmax) =>
                  /\ Levels(df) = tmin..MaxLevel(df)
                  /\ \A l \in Levels(df) \ {MaxLevel(df)} : LevelPasses(df, l)
                  /\ stopped_early <=> ~LevelPasses(df, MaxLevel(df))
                  /\ ~stopped_early => MaxLevel(df) = tmax
                  /\ stopped_early => no_improve = 1)
    /\ [][(patience <= 1 /\ no_improve' = no_improve + 1) => stopped_early']_vars

C20_Witness ==
    /\ patience = 0
    /\ pc = "exit"
    /\ stopped_early
    /\ no_improve > patience
    /\ Cardinality(Levels(df)) = 3
    /\ MaxLevel(df) < tmax

====
